---- MODULE Spec2Model ----
(***************************************************************************)
(* TodoDAG (src/app/utils/dag.ts): the in-memory dependency graph of the   *)
(* todo application, its safe-target cache, the Kahn earliest-start        *)
(* scheduler and the memoized critical-path search.                        *)
(*                                                                         *)
(* A JavaScript Map is a sequence of entries [key, val] in insertion       *)
(* order; a JavaScript Set is a duplicate-free sequence in insertion       *)
(* order.  Iteration in the code follows these orders.                     *)
(***************************************************************************)
EXTENDS Integers, Sequences, FiniteSets, TLC

\* ---------------------------------------------------------------- bounds
\* ids and durations the calls are made with, and the number of calls in a run;
\* the lists given to initialize (TodoLists) carry their own ids and durations
MaxId == 3
MaxDuration == 1
MaxOps == 3

\* the number of handler calls (clicks and submits) in a run of the page
MaxClicks == 2

Ids == 1..MaxId
Durations == 0..MaxDuration

\* ------------------------------------------------- Map / Set of JavaScript
Range(s) == {s[i] : i \in 1..Len(s)}

\* Array.from / an iterator's map: the elements in order, F applied to each
RECURSIVE ArrayFrom(_, _)
ArrayFrom(f, n) == IF n = 0 THEN <<>> ELSE Append(ArrayFrom(f, n - 1), f[n])

SeqMap(s, F(_)) == ArrayFrom([i \in 1..Len(s) |-> F(s[i])], Len(s))

MapHas(m, k) == \E i \in 1..Len(m) : m[i].key = k

MapGet(m, k) == m[CHOOSE i \in 1..Len(m) : m[i].key = k].val

MapSet(m, k, v) ==
  IF MapHas(m, k)
    THEN SeqMap(m, LAMBDA e : IF e.key = k THEN [key |-> k, val |-> v] ELSE e)
    ELSE Append(m, [key |-> k, val |-> v])

MapDelete(m, k) == SelectSeq(m, LAMBDA e : e.key # k)

MapKeys(m) == SeqMap(m, LAMBDA e : e.key)

MapValuesForEach(m, F(_)) == SeqMap(m, LAMBDA e : [key |-> e.key, val |-> F(e.val)])

SetHas(s, x) == x \in Range(s)

SetAdd(s, x) == IF SetHas(s, x) THEN s ELSE Append(s, x)

SetDelete(s, x) == SelectSeq(s, LAMBDA y : y # x)

\* Set.prototype.entries(): one [value, value] pair per element
SetEntries(s) == SeqMap(s, LAMBDA x : <<x, x>>)

\* ------------------------------------------------------------------ state
VARIABLES
  idToTodo,          \* Map id -> Todo [id, duration, minimumHours]
  adj,               \* Map id -> Set of dependent ids
  rev,               \* Map id -> Set of prerequisite ids
  safeTargetsCache,  \* Map id -> array of ids
  ret,               \* the last call and what it returned
  ops,               \* number of calls made so far
  other,             \* the other version of TodoDAG, when run side by side
  db,                \* the persisted Todo rows [id, duration, dependencies]
  seq,               \* the next value of the autoincrement id column
  routeKey,          \* the body key the deployed delete-todo route reads
  reqs,              \* the handler calls of the page that have not finished
  form               \* the state of AddDependencyForm and its rendered options

\* the server and the page around the TodoDAG
appVars == <<db, seq, routeKey, reqs, form>>

vars == <<idToTodo, adj, rev, safeTargetsCache, ret, ops, other, appVars>>

\* the TodoDAG singleton as one value
This ==
  [idToTodo |-> idToTodo, adj |-> adj, rev |-> rev,
   safeTargetsCache |-> safeTargetsCache]

\* class Todo, as constructed from a TodoSchema (duration || 0, minimumHours 0)
NewTodo(id, duration) == [id |-> id, duration |-> duration, minimumHours |-> 0]

allTodoIds(t) == MapKeys(t.idToTodo)

\* rootNodes filtering the forward adjacency map instead of the reverse one
rootNodesFromAdj(t) == MapKeys(SelectSeq(t.adj, LAMBDA e : Len(e.val) = 0))

rootNodes(t) == MapKeys(SelectSeq(t.rev, LAMBDA e : Len(e.val) = 0))

getParentIds(t, todoId) ==
  IF MapHas(t.rev, todoId) THEN MapGet(t.rev, todoId) ELSE <<>>

getChildrenOf(t, todoId) ==
  IF MapHas(t.adj, todoId) THEN MapGet(t.adj, todoId) ELSE <<>>

hasTodo(t, todoId) == MapHas(t.idToTodo, todoId)

hasDependency(t, from, to) ==
  IF ~hasTodo(t, from) \/ ~hasTodo(t, to)
    THEN FALSE
    ELSE SetHas(MapGet(t.adj, from), to)

addNode(t, node) ==
  IF ~MapHas(t.adj, node)
    THEN [t EXCEPT !.adj = MapSet(@, node, <<>>), !.rev = MapSet(@, node, <<>>)]
    ELSE t

\* ------------------------------------------------ calculateEarliestStartTimes
Max(x, y) == IF x >= y THEN x ELSE y

\* the for loop over the dependents of the dequeued task
RECURSIVE KahnNeighbors(_, _, _, _)
KahnNeighbors(nbrs, i, finishTime, st) ==
  IF i > Len(nbrs) THEN st
  ELSE LET neighbor == nbrs[i]
           newStart == Max(st.earliestStart[neighbor], finishTime)
           deg      == st.indegree[neighbor] - 1
       IN KahnNeighbors(nbrs, i + 1, finishTime,
            [st EXCEPT !.earliestStart[neighbor] = newStart,
                       !.indegree[neighbor] = deg,
                       !.queue = IF deg = 0 THEN Append(@, neighbor) ELSE @])

\* the while loop over the work queue
RECURSIVE KahnLoop(_, _, _)
KahnLoop(t, duration, st) ==
  IF Len(st.queue) = 0 THEN st
  ELSE LET current    == Head(st.queue)
           finishTime == st.earliestStart[current] + duration[current]
           shifted    == [st EXCEPT !.queue = Tail(@), !.dequeued = Append(@, current)]
       IN KahnLoop(t, duration,
                   KahnNeighbors(getChildrenOf(t, current), 1, finishTime, shifted))

\* the three local maps, the queue seeded with rootNodes, and the loop
Kahn(t) ==
  LET present  == Range(allTodoIds(t))
      duration == [id \in present |-> MapGet(t.idToTodo, id).duration]
  IN KahnLoop(t, duration,
       [earliestStart |-> [id \in present |-> 0],
        indegree      |-> [id \in present |-> Len(MapGet(t.rev, id))],
        queue         |-> rootNodes(t),
        dequeued      |-> <<>>])

\* the write-back adding the computed start to the stored one
calculateEarliestStartTimesAccumulating(t) ==
  LET es == Kahn(t).earliestStart
  IN [t EXCEPT !.idToTodo =
        SeqMap(t.idToTodo, LAMBDA e : [e EXCEPT !.val.minimumHours = @ + es[e.key]])]

calculateEarliestStartTimes(t) ==
  LET es == Kahn(t).earliestStart
  IN [t EXCEPT !.idToTodo =
        SeqMap(t.idToTodo, LAMBDA e : [e EXCEPT !.val.minimumHours = es[e.key]])]

\* ------------------------------------------------------------- mutators
addTodo(t, todo) ==
  calculateEarliestStartTimes(
    addNode([t EXCEPT !.idToTodo = MapSet(@, todo.id, todo)], todo.id))

\* addDependency checking only that `from` is a known task
addDependencyUncheckedTarget(t, from, to) ==
  IF ~hasTodo(t, from)
    THEN [this |-> t, val |-> FALSE]
    ELSE [this |-> [t EXCEPT !.adj = MapSet(@, from, SetAdd(MapGet(@, from), to)),
                             !.rev = IF MapHas(@, to)
                                       THEN MapSet(@, to, SetAdd(MapGet(@, to), from))
                                       ELSE @,
                             !.safeTargetsCache = <<>>],
          val |-> TRUE]

\* addDependency invalidating the cache before it looks at the endpoints
addDependencyClearsCacheFirst(t, from, to) ==
  IF ~hasTodo(t, from) \/ ~hasTodo(t, to)
    THEN [this |-> [t EXCEPT !.safeTargetsCache = <<>>], val |-> FALSE]
    ELSE [this |-> [t EXCEPT !.adj = MapSet(@, from, SetAdd(MapGet(@, from), to)),
                             !.rev = MapSet(@, to, SetAdd(MapGet(@, to), from)),
                             !.safeTargetsCache = <<>>],
          val |-> TRUE]

addDependency(t, from, to) ==
  IF ~hasTodo(t, from) \/ ~hasTodo(t, to)
    THEN [this |-> t, val |-> FALSE]
    ELSE [this |-> [t EXCEPT !.adj = MapSet(@, from, SetAdd(MapGet(@, from), to)),
                             !.rev = MapSet(@, to, SetAdd(MapGet(@, to), from)),
                             !.safeTargetsCache = <<>>],
          val |-> TRUE]

\* deleteDependency removing the edge from the forward adjacency set only
deleteDependencyForwardOnly(t, from, to) ==
  IF ~hasDependency(t, from, to) THEN t
  ELSE calculateEarliestStartTimes(
         [t EXCEPT !.adj = IF MapHas(@, from)
                             THEN MapSet(@, from, SetDelete(MapGet(@, from), to)) ELSE @,
                   !.safeTargetsCache = <<>>])

deleteDependency(t, from, to) ==
  IF ~hasDependency(t, from, to) THEN t
  ELSE calculateEarliestStartTimes(
         [t EXCEPT !.adj = IF MapHas(@, from)
                             THEN MapSet(@, from, SetDelete(MapGet(@, from), to)) ELSE @,
                   !.rev = IF MapHas(@, to)
                             THEN MapSet(@, to, SetDelete(MapGet(@, to), from)) ELSE @,
                   !.safeTargetsCache = <<>>])

\* deleteNode without the pass over the reverse adjacency sets
deleteNodeForwardOnly(t, node) ==
  calculateEarliestStartTimes(
    [t EXCEPT !.idToTodo = MapDelete(@, node),
              !.adj = MapValuesForEach(MapDelete(@, node), LAMBDA s : SetDelete(s, node)),
              !.rev = MapDelete(@, node),
              !.safeTargetsCache = <<>>])

\* deleteNode emptying every forward set instead of deleting `node` from it
deleteNodeClearsSets(t, node) ==
  calculateEarliestStartTimes(
    [t EXCEPT !.idToTodo = MapDelete(@, node),
              !.adj = MapValuesForEach(MapDelete(@, node), LAMBDA s : <<>>),
              !.rev = MapValuesForEach(MapDelete(@, node), LAMBDA s : SetDelete(s, node)),
              !.safeTargetsCache = <<>>])

deleteNode(t, node) ==
  calculateEarliestStartTimes(
    [t EXCEPT !.idToTodo = MapDelete(@, node),
              !.adj = MapValuesForEach(MapDelete(@, node), LAMBDA s : SetDelete(s, node)),
              !.rev = MapValuesForEach(MapDelete(@, node), LAMBDA s : SetDelete(s, node)),
              !.safeTargetsCache = <<>>])

\* initialize: the loop adding every todo as a node
RECURSIVE initializeNodes(_, _, _)
initializeNodes(t, todos, i) ==
  IF i > Len(todos) THEN t
  ELSE initializeNodes(
         addNode([t EXCEPT !.idToTodo =
                    MapSet(@, todos[i].id, NewTodo(todos[i].id, todos[i].duration))],
                 todos[i].id),
         todos, i + 1)

\* initialize: the nested loops adding every declared dependency
RECURSIVE initializeDependencies(_, _, _, _)
initializeDependencies(t, todos, i, j) ==
  IF i > Len(todos) THEN t
  ELSE IF j > Len(todos[i].dependencies) THEN initializeDependencies(t, todos, i + 1, 1)
  ELSE initializeDependencies(
         addDependency(t, todos[i].dependencies[j], todos[i].id).this, todos, i, j + 1)

\* initialize building on the maps as they are, only the cache cleared
initializeWithoutClear(t, todos) ==
  calculateEarliestStartTimes(
    initializeDependencies(
      initializeNodes([t EXCEPT !.safeTargetsCache = <<>>], todos, 1), todos, 1, 1))

initialize(t, todos) ==
  LET cleared == [idToTodo |-> <<>>, adj |-> <<>>, rev |-> <<>>, safeTargetsCache |-> <<>>]
  IN calculateEarliestStartTimes(
       initializeDependencies(initializeNodes(cleared, todos, 1), todos, 1, 1))

\* ------------------------------------------------------------ getSafeTargets
\* the stack walk over reverse adjacency collecting the ancestors of `from`
RECURSIVE ancestorsLoop(_, _, _)
ancestorsLoop(t, stack, ancestors) ==
  IF Len(stack) = 0 THEN ancestors
  ELSE LET node   == stack[Len(stack)]
           popped == SubSeq(stack, 1, Len(stack) - 1)
       IN IF SetHas(ancestors, node)
            THEN ancestorsLoop(t, popped, ancestors)
            ELSE ancestorsLoop(t, popped \o getParentIds(t, node), SetAdd(ancestors, node))

\* the ancestor set cut down to `from` and its direct prerequisites
computeSafeTargetsDirectOnly(t, from) ==
  LET ancestors == <<from>> \o getParentIds(t, from)
  IN SelectSeq(allTodoIds(t), LAMBDA id : ~SetHas(ancestors, id))

computeSafeTargets(t, from) ==
  LET ancestors == ancestorsLoop(t, <<from>>, <<>>)
  IN SelectSeq(allTodoIds(t), LAMBDA id : ~SetHas(ancestors, id))

getSafeTargets(t, from) ==
  IF MapHas(t.safeTargetsCache, from)
    THEN [this |-> t, val |-> MapGet(t.safeTargetsCache, from)]
    ELSE LET safe == computeSafeTargets(t, from)
         IN [this |-> [t EXCEPT !.safeTargetsCache = MapSet(@, from, safe)],
             val  |-> safe]

\* ----------------------------------------------------------- getCriticalPath
\* findMaxPath(node) with the memo threaded through the calls.  `active` is the
\* set of nodes whose call has not returned: entering one of them again means
\* the recursion never reaches a leaf and the call stack overflows (RangeError).
RECURSIVE findMaxPath(_, _, _, _)
RECURSIVE findMaxPathLoop(_, _, _, _, _, _)
findMaxPath(t, node, memo, active) ==
  IF MapHas(memo, node)
    THEN [threw |-> FALSE, memo |-> memo, result |-> MapGet(memo, node)]
  ELSE IF node \in active
    THEN [threw |-> TRUE, memo |-> memo, result |-> [weight |-> 0, path |-> <<>>]]
  ELSE LET neighbors == IF MapHas(t.adj, node) THEN MapGet(t.adj, node) ELSE <<>>
       IN IF Len(neighbors) = 0
            THEN LET result == [weight |-> 0, path |-> <<node>>]
                 IN [threw |-> FALSE, memo |-> MapSet(memo, node, result), result |-> result]
            ELSE LET l == findMaxPathLoop(t, SetEntries(neighbors), 1, memo,
                                          active \cup {node},
                                          [negInfinity |-> TRUE, maxWeight |-> 0,
                                           bestPath |-> <<>>])
                     result == [weight |-> l.best.maxWeight,
                                path   |-> <<node>> \o l.best.bestPath]
                 IN IF l.threw
                      THEN [threw |-> TRUE, memo |-> l.memo, result |-> result]
                      ELSE [threw |-> FALSE, memo |-> MapSet(l.memo, node, result),
                            result |-> result]

\* the neighbor loop keeping only the neighbor itself as best path
findMaxPathLoopNeighborOnly(t, entries, i, memo, active, best) ==
  IF i > Len(entries) THEN [threw |-> FALSE, memo |-> memo, best |-> best]
  ELSE LET neighbor   == entries[i][1]
           edgeWeight == entries[i][2]
           neighborResult == findMaxPath(t, neighbor, memo, active)
           totalWeight == edgeWeight + neighborResult.result.weight
       IN IF neighborResult.threw
            THEN [threw |-> TRUE, memo |-> neighborResult.memo, best |-> best]
            ELSE findMaxPathLoop(t, entries, i + 1, neighborResult.memo, active,
                   IF best.negInfinity \/ totalWeight > best.maxWeight
                     THEN [negInfinity |-> FALSE, maxWeight |-> totalWeight,
                           bestPath |-> <<neighbor>>]
                     ELSE best)

findMaxPathLoop(t, entries, i, memo, active, best) ==
  IF i > Len(entries) THEN [threw |-> FALSE, memo |-> memo, best |-> best]
  ELSE LET neighbor   == entries[i][1]
           edgeWeight == entries[i][2]
           neighborResult == findMaxPath(t, neighbor, memo, active)
           totalWeight == edgeWeight + neighborResult.result.weight
       IN IF neighborResult.threw
            THEN [threw |-> TRUE, memo |-> neighborResult.memo, best |-> best]
            ELSE findMaxPathLoop(t, entries, i + 1, neighborResult.memo, active,
                   IF best.negInfinity \/ totalWeight > best.maxWeight
                     THEN [negInfinity |-> FALSE, maxWeight |-> totalWeight,
                           bestPath |-> neighborResult.result.path]
                     ELSE best)

\* [threw, path]: the array returned, or threw = TRUE when the call ends in an
\* exception instead of returning
getCriticalPath(t, root) ==
  IF ~MapHas(t.idToTodo, root)
    THEN [threw |-> FALSE, path |-> <<>>]
    ELSE LET r == findMaxPath(t, root, <<>>, {})
         IN [threw |-> r.threw, path |-> IF r.threw THEN <<>> ELSE r.result.path]

\* ------------------------------------------- the other version of TodoDAG
\* The second TodoDAG class of the source keeps adj as a Map from the source id
\* to a Map from the target id to a weight (the source's duration when the edge
\* was added) and finds the safe targets by probing forward reachability.  Its
\* hasTodo, allTodoIds and getParentIds are those of the first version.
addNodeOther(t, node) ==
  IF ~MapHas(t.adj, node)
    THEN [t EXCEPT !.adj = MapSet(@, node, <<>>), !.rev = MapSet(@, node, <<>>)]
    ELSE t

hasDependencyOther(t, from, to) ==
  IF ~hasTodo(t, from) \/ ~hasTodo(t, to)
    THEN FALSE
    ELSE MapHas(MapGet(t.adj, from), to)

\* the while loop over the work queue, the dependents taken from `graph`
RECURSIVE KahnLoopOther(_, _, _)
KahnLoopOther(graph, duration, st) ==
  IF Len(st.queue) = 0 THEN st
  ELSE LET current    == Head(st.queue)
           finishTime == st.earliestStart[current] + duration[current]
           shifted    == [st EXCEPT !.queue = Tail(@), !.dequeued = Append(@, current)]
       IN KahnLoopOther(graph, duration,
                        KahnNeighbors(graph[current], 1, finishTime, shifted))

\* the local maps built from allTodoIds and getParentIds, the queue of the
\* tasks of indegree 0, and the loop
KahnOther(t) ==
  LET ids      == allTodoIds(t)
      present  == Range(ids)
      duration == [id \in present |-> MapGet(t.idToTodo, id).duration]
      graph    == [dep \in present |->
                     SelectSeq(ids, LAMBDA id : SetHas(getParentIds(t, id), dep))]
      indegree == [id \in present |-> Len(getParentIds(t, id))]
  IN KahnLoopOther(graph, duration,
       [earliestStart |-> [id \in present |-> 0],
        indegree      |-> indegree,
        queue         |-> SelectSeq(ids, LAMBDA id : indegree[id] = 0),
        dequeued      |-> <<>>])

calculateEarliestStartTimesOther(t) ==
  LET es == KahnOther(t).earliestStart
  IN [t EXCEPT !.idToTodo =
        SeqMap(t.idToTodo, LAMBDA e : [e EXCEPT !.val.minimumHours = es[e.key]])]

addTodoOther(t, todo) ==
  calculateEarliestStartTimesOther(
    addNodeOther([t EXCEPT !.idToTodo = MapSet(@, todo.id, todo)], todo.id))

addDependencyOther(t, from, to) ==
  IF ~hasTodo(t, from) \/ ~hasTodo(t, to)
    THEN [this |-> t, val |-> FALSE]
    ELSE LET source == MapGet(t.idToTodo, from)
         IN [this |-> [t EXCEPT !.adj = MapSet(@, from,
                                          MapSet(MapGet(@, from), to, source.duration)),
                                !.rev = MapSet(@, to, SetAdd(MapGet(@, to), from)),
                                !.safeTargetsCache = <<>>],
             val |-> TRUE]

deleteDependencyOther(t, from, to) ==
  IF ~hasDependencyOther(t, from, to) THEN t
  ELSE calculateEarliestStartTimesOther(
         [t EXCEPT !.adj = IF MapHas(@, from)
                             THEN MapSet(@, from, MapDelete(MapGet(@, from), to)) ELSE @,
                   !.rev = IF MapHas(@, to)
                             THEN MapSet(@, to, SetDelete(MapGet(@, to), from)) ELSE @,
                   !.safeTargetsCache = <<>>])

deleteNodeOther(t, node) ==
  calculateEarliestStartTimesOther(
    [t EXCEPT !.idToTodo = MapDelete(@, node),
              !.adj = MapValuesForEach(MapDelete(@, node), LAMBDA m : MapDelete(m, node)),
              !.rev = MapValuesForEach(MapDelete(@, node), LAMBDA s : SetDelete(s, node)),
              !.safeTargetsCache = <<>>])

RECURSIVE initializeNodesOther(_, _, _)
initializeNodesOther(t, todos, i) ==
  IF i > Len(todos) THEN t
  ELSE initializeNodesOther(
         addNodeOther([t EXCEPT !.idToTodo =
                         MapSet(@, todos[i].id, NewTodo(todos[i].id, todos[i].duration))],
                      todos[i].id),
         todos, i + 1)

RECURSIVE initializeDependenciesOther(_, _, _, _)
initializeDependenciesOther(t, todos, i, j) ==
  IF i > Len(todos) THEN t
  ELSE IF j > Len(todos[i].dependencies)
    THEN initializeDependenciesOther(t, todos, i + 1, 1)
  ELSE initializeDependenciesOther(
         addDependencyOther(t, todos[i].dependencies[j], todos[i].id).this, todos, i, j + 1)

initializeOther(t, todos) ==
  LET cleared == [idToTodo |-> <<>>, adj |-> <<>>, rev |-> <<>>, safeTargetsCache |-> <<>>]
  IN calculateEarliestStartTimesOther(
       initializeDependenciesOther(initializeNodesOther(cleared, todos, 1), todos, 1, 1))

\* isReachable(start, target): the stack walk over forward adjacency
RECURSIVE isReachableLoop(_, _, _, _)
isReachableLoop(t, stack, visited, target) ==
  IF Len(stack) = 0 THEN FALSE
  ELSE LET node   == stack[Len(stack)]
           popped == SubSeq(stack, 1, Len(stack) - 1)
       IN IF node = target THEN TRUE
          ELSE IF SetHas(visited, node) THEN isReachableLoop(t, popped, visited, target)
          ELSE isReachableLoop(
                 t,
                 popped \o (IF MapHas(t.adj, node) THEN MapKeys(MapGet(t.adj, node)) ELSE <<>>),
                 SetAdd(visited, node), target)

\* the probe looking at the direct dependents of `start` only
isReachableDirect(t, start, target) ==
  \/ start = target
  \/ MapHas(t.adj, start) /\ MapHas(MapGet(t.adj, start), target)

isReachable(t, start, target) == isReachableLoop(t, <<start>>, <<>>, target)

computeSafeTargetsOther(t, from) ==
  SelectSeq(MapKeys(t.adj),
            LAMBDA candidate : candidate # from /\ ~isReachable(t, candidate, from))

getSafeTargetsOther(t, from) ==
  IF MapHas(t.safeTargetsCache, from)
    THEN [this |-> t, val |-> MapGet(t.safeTargetsCache, from)]
    ELSE LET safe == computeSafeTargetsOther(t, from)
         IN [this |-> [t EXCEPT !.safeTargetsCache = MapSet(@, from, safe)],
             val  |-> safe]

\* -------------------------------------------------------------- the inputs
Schema(id, duration, dependencies) ==
  [id |-> id, duration |-> duration, dependencies |-> dependencies]

\* lists of TodoSchema rows as GET /api/todos may return them
TodoLists ==
  { <<>>,
    \* scenario 2: A(2), B(3), C(4), A -> C, B -> C
    << Schema(1, 2, <<>>), Schema(2, 3, <<>>), Schema(3, 4, <<1, 2>>) >>,
    \* the diamond A=1, B=2, C=3, D=4
    << Schema(1, 1, <<>>), Schema(2, 2, <<1>>), Schema(3, 5, <<1>>), Schema(4, 1, <<2, 3>>) >>,
    \* the diamond A=1, C=2, B=3, D=4
    << Schema(1, 1, <<>>), Schema(2, 5, <<1>>), Schema(3, 2, <<1>>), Schema(4, 1, <<3, 2>>) >>,
    \* a chain 1 -> 2 -> 3
    << Schema(1, 1, <<>>), Schema(2, 1, <<1>>), Schema(3, 0, <<2>>) >>,
    \* rows declaring each other, and a row declaring itself
    << Schema(1, 1, <<2>>), Schema(2, 1, <<1>>), Schema(3, 1, <<3>>) >>,
    \* a row naming a prerequisite that is not in the list
    << Schema(2, 1, <<1>>), Schema(3, 1, <<2>>) >>,
    \* two tasks without dependencies
    << Schema(1, 1, <<>>), Schema(2, 1, <<>>) >>,
    \* a fork 1 -> 2, 1 -> 3 with equal durations
    << Schema(1, 1, <<>>), Schema(2, 1, <<1>>), Schema(3, 1, <<1>>) >> }

\* ------------------------------------------------------------------ actions
\* a call of method `name` with numeric arguments `arguments`: `todos` is the
\* list passed to initialize, `threw` tells that the call ended in an exception,
\* `bool` is a returned boolean and `ids` a returned array of ids; `known` tells
\* that every task id the call names was a present task when the call was made
\* `otherIds` is the array the other version returned for the same call
Call(name, arguments) ==
  [op |-> name, args |-> arguments, todos |-> <<>>, known |-> TRUE,
   threw |-> FALSE, bool |-> FALSE, ids |-> <<>>, otherIds |-> <<>>]

Commit(t) ==
  /\ idToTodo' = t.idToTodo
  /\ adj' = t.adj
  /\ rev' = t.rev
  /\ safeTargetsCache' = t.safeTargetsCache

\* a direct call on the TodoDAG: counted, and nothing around the graph moves
Step == ops < MaxOps /\ ops' = ops + 1 /\ UNCHANGED appVars

\* AddDependencyForm before any selection: both ids null (0) and no options
EmptyForm == [source |-> 0, target |-> 0, options |-> <<>>]

Init ==
  /\ idToTodo = <<>>
  /\ adj = <<>>
  /\ rev = <<>>
  /\ safeTargetsCache = <<>>
  /\ ret = Call("getInstance", <<>>)
  /\ ops = 0
  /\ other = [idToTodo |-> <<>>, adj |-> <<>>, rev |-> <<>>, safeTargetsCache |-> <<>>]
  /\ db = <<>>
  /\ seq = 1
  /\ routeKey = "parentsToUpdate"
  /\ reqs = {}
  /\ form = EmptyForm

Initialize(todos) ==
  /\ Step
  /\ Commit(initialize(This, todos))
  /\ ret' = [Call("initialize", <<>>) EXCEPT !.todos = todos]
  /\ UNCHANGED other

AddTodo(id, duration) ==
  /\ Step
  /\ Commit(addTodo(This, NewTodo(id, duration)))
  /\ ret' = [Call("addTodo", <<id, duration>>) EXCEPT !.known = hasTodo(This, id)]
  /\ UNCHANGED other

AddDependency(from, to) ==
  /\ Step
  /\ Commit(addDependency(This, from, to).this)
  /\ ret' = [Call("addDependency", <<from, to>>)
               EXCEPT !.known = hasTodo(This, from) /\ hasTodo(This, to),
                      !.bool = addDependency(This, from, to).val]
  /\ UNCHANGED other

DeleteDependency(from, to) ==
  /\ Step
  /\ Commit(deleteDependency(This, from, to))
  /\ ret' = [Call("deleteDependency", <<from, to>>)
               EXCEPT !.known = hasTodo(This, from) /\ hasTodo(This, to)]
  /\ UNCHANGED other

DeleteNode(node) ==
  /\ Step
  /\ Commit(deleteNode(This, node))
  /\ ret' = [Call("deleteNode", <<node>>) EXCEPT !.known = hasTodo(This, node)]
  /\ UNCHANGED other

CalculateEarliestStartTimes ==
  /\ Step
  /\ Commit(calculateEarliestStartTimes(This))
  /\ ret' = Call("calculateEarliestStartTimes", <<>>)
  /\ UNCHANGED other

GetSafeTargets(from) ==
  /\ Step
  /\ Commit(getSafeTargets(This, from).this)
  /\ ret' = [Call("getSafeTargets", <<from>>)
               EXCEPT !.known = hasTodo(This, from),
                      !.ids = getSafeTargets(This, from).val]
  /\ UNCHANGED other

GetCriticalPath(root) ==
  /\ Step
  /\ ret' = [Call("getCriticalPath", <<root>>)
               EXCEPT !.known = hasTodo(This, root),
                      !.threw = getCriticalPath(This, root).threw,
                      !.ids = getCriticalPath(This, root).path]
  /\ UNCHANGED <<idToTodo, adj, rev, safeTargetsCache>>
  /\ UNCHANGED other

\* the same calls made on both versions of TodoDAG
PairInitialize(todos) ==
  /\ Step
  /\ Commit(initialize(This, todos))
  /\ other' = initializeOther(other, todos)
  /\ ret' = [Call("initialize", <<>>) EXCEPT !.todos = todos]

PairAddTodo(id, duration) ==
  /\ Step
  /\ Commit(addTodo(This, NewTodo(id, duration)))
  /\ other' = addTodoOther(other, NewTodo(id, duration))
  /\ ret' = [Call("addTodo", <<id, duration>>) EXCEPT !.known = hasTodo(This, id)]

PairAddDependency(from, to) ==
  /\ Step
  /\ Commit(addDependency(This, from, to).this)
  /\ other' = addDependencyOther(other, from, to).this
  /\ ret' = [Call("addDependency", <<from, to>>)
               EXCEPT !.known = hasTodo(This, from) /\ hasTodo(This, to),
                      !.bool = addDependency(This, from, to).val]

PairDeleteDependency(from, to) ==
  /\ Step
  /\ Commit(deleteDependency(This, from, to))
  /\ other' = deleteDependencyOther(other, from, to)
  /\ ret' = [Call("deleteDependency", <<from, to>>)
               EXCEPT !.known = hasTodo(This, from) /\ hasTodo(This, to)]

PairDeleteNode(node) ==
  /\ Step
  /\ Commit(deleteNode(This, node))
  /\ other' = deleteNodeOther(other, node)
  /\ ret' = [Call("deleteNode", <<node>>) EXCEPT !.known = hasTodo(This, node)]

PairGetSafeTargets(from) ==
  /\ Step
  /\ Commit(getSafeTargets(This, from).this)
  /\ other' = getSafeTargetsOther(other, from).this
  /\ ret' = [Call("getSafeTargets", <<from>>)
               EXCEPT !.known = hasTodo(This, from),
                      !.ids = getSafeTargets(This, from).val,
                      !.otherIds = getSafeTargetsOther(other, from).val]

Next ==
  \/ \E todos \in TodoLists : Initialize(todos)
  \/ \E id \in Ids, d \in Durations : AddTodo(id, d)
  \/ \E from \in Ids, to \in Ids : AddDependency(from, to)
  \/ \E from \in Ids, to \in Ids : DeleteDependency(from, to)
  \/ \E node \in Ids : DeleteNode(node)
  \/ CalculateEarliestStartTimes
  \/ \E from \in Ids : GetSafeTargets(from)
  \/ \E root \in Ids : GetCriticalPath(root)

Spec == Init /\ [][Next]_vars

PairNext ==
  \/ \E todos \in TodoLists : PairInitialize(todos)
  \/ \E id \in Ids, d \in Durations : PairAddTodo(id, d)
  \/ \E from \in Ids, to \in Ids : PairAddDependency(from, to)
  \/ \E from \in Ids, to \in Ids : PairDeleteDependency(from, to)
  \/ \E node \in Ids : PairDeleteNode(node)
  \/ \E from \in Ids : PairGetSafeTargets(from)

\* the two versions of TodoDAG fed the same calls
PairSpec == Init /\ [][PairNext]_vars

\* ------------------------------------------------- vocabulary of the claims
Present == Range(MapKeys(idToTodo))

Edge(a, b) == MapHas(adj, a) /\ SetHas(MapGet(adj, a), b)

\* the ids stored in adj[a]
Children(a) == IF MapHas(adj, a) THEN Range(MapGet(adj, a)) ELSE {}

\* every id that is a key of a map or an element of an adjacency set
Mentioned ==
  Present \cup Range(MapKeys(adj)) \cup Range(MapKeys(rev))
    \cup UNION {Range(adj[i].val) : i \in 1..Len(adj)}
    \cup UNION {Range(rev[i].val) : i \in 1..Len(rev)}

Duration(id) == MapGet(idToTodo, id).duration

MinimumHours(id) == MapGet(idToTodo, id).minimumHours

SetMax(S) == CHOOSE x \in S : \A y \in S : y <= x

\* the least set containing S and closed under forward adjacency
RECURSIVE ForwardClosure(_)
ForwardClosure(S) ==
  LET N == S \cup UNION {Children(a) : a \in S}
  IN IF N = S THEN S ELSE ForwardClosure(N)

\* the ids reachable from a by one or more forward edges
ReachableFrom(a) == ForwardClosure(Children(a))

Acyclic == \A a \in Mentioned : a \notin ReachableFrom(a)

LastOp(name) == ret.op = name

\* C1: in every reachable state no task is reachable from itself via forward
\* adjacency, a self-edge included.
C1_Acyclicity == Acyclic

\* C2: a call addDependency(from, to) on present tasks with to = from, or with
\* from reachable from to, returns false and leaves adj and rev as they were.
C2_CycleRejected ==
  [][ (ret'.op = "addDependency" /\ ops' = ops + 1)
        => LET from == ret'.args[1]
               to   == ret'.args[2]
           IN (from \in Present /\ to \in Present /\ (to = from \/ from \in ReachableFrom(to)))
                => (ret'.bool = FALSE /\ adj' = adj /\ rev' = rev) ]_vars

\* C3: for every present task p, a fresh getSafeTargets(p) computation yields
\* exactly the present ids d # p from which p is not reachable via adj.
C3_SafeTargetCorrect ==
  \A p \in Present :
    Range(computeSafeTargets(This, p))
      = {d \in Present : d # p /\ p \notin ReachableFrom(d)}

\* a fresh getSafeTargets(B) with an edge A -> B present has excluded A and B
\* and returned some other task
C3_Witness ==
  /\ LastOp("getSafeTargets")
  /\ ret.args[1] \in Present
  /\ ret.ids = computeSafeTargets(This, ret.args[1])
  /\ \E a \in Present : Edge(a, ret.args[1]) /\ a # ret.args[1] /\ ~SetHas(ret.ids, a)
  /\ ~SetHas(ret.ids, ret.args[1])
  /\ Len(ret.ids) > 0

\* C4: right after calculateEarliestStartTimes() every root has minimumHours 0,
\* every edge p -> d has minimumHours[d] >= minimumHours[p] + duration[p], and
\* every non-root task meets that bound with equality on one incoming edge.
SchedulerRelation ==
  /\ \A r \in Present : (\A p \in Present : ~Edge(p, r)) => MinimumHours(r) = 0
  /\ \A p \in Present, d \in Present :
       Edge(p, d) => MinimumHours(d) >= MinimumHours(p) + Duration(p)
  /\ \A d \in Present :
       (\E p \in Present : Edge(p, d))
         => \E p \in Present : Edge(p, d) /\ MinimumHours(d) = MinimumHours(p) + Duration(p)

C4_SchedulerCorrect == LastOp("calculateEarliestStartTimes") => SchedulerRelation

\* C5: when addTodo, addDependency, deleteDependency, deleteNode or initialize
\* returns, every minimumHours equals what calculateEarliestStartTimes() would
\* produce on the current graph.  Stated for the acyclic graphs, where the
\* scheduler's result is the one the spec defines.
C5_EagerRecompute ==
  (/\ ret.op \in {"addTodo", "addDependency", "deleteDependency", "deleteNode",
                   "initialize"}
   /\ Acyclic)
    => idToTodo = calculateEarliestStartTimes(This).idToTodo

\* the weight of a chain, each edge weighted by the duration of its source
RECURSIVE ChainWeight(_)
ChainWeight(path) ==
  IF Len(path) <= 1 THEN 0 ELSE Duration(path[1]) + ChainWeight(Tail(path))

\* the greatest weight of a forward chain from n to a task with no dependents
RECURSIVE LongestFrom(_)
LongestFrom(n) ==
  IF Children(n) = {}
    THEN 0
    ELSE Duration(n) + SetMax({LongestFrom(c) : c \in Children(n)})

IsForwardChain(path) == \A i \in 1..(Len(path) - 1) : Edge(path[i], path[i + 1])

\* C6: on an acyclic graph getCriticalPath(root), root present, returns a forward
\* chain from root whose weight by source durations is the greatest among the
\* forward chains from root to a task with no dependents.
C6_CriticalPathOptimal ==
  (LastOp("getCriticalPath") /\ ret.args[1] \in Present /\ Acyclic)
    => /\ ~ret.threw
       /\ Len(ret.ids) >= 1
       /\ ret.ids[1] = ret.args[1]
       /\ IsForwardChain(ret.ids)
       /\ ChainWeight(ret.ids) = LongestFrom(ret.args[1])

WellFormedPath(root, path) ==
  /\ Len(path) >= 1
  /\ path[1] = root
  /\ Children(path[Len(path)]) = {}
  /\ IsForwardChain(path)

\* C7: for every present root, the sequence getCriticalPath(root) returns
\* starts with root, ends at a task with no dependents, and each consecutive
\* pair in it is an edge of forward adjacency.
C7_PathWellFormed ==
  /\ \A root \in Present :
       LET r == getCriticalPath(This, root)
       IN ~r.threw => WellFormedPath(root, r.path)
  /\ (LastOp("getCriticalPath") /\ ret.args[1] \in Present /\ ~ret.threw)
       => WellFormedPath(ret.args[1], ret.ids)

\* a call returned a path of three tasks from a root with two dependents
C7_Witness ==
  /\ LastOp("getCriticalPath")
  /\ ret.args[1] \in Present
  /\ ~ret.threw
  /\ Len(ret.ids) >= 3
  /\ Len(getChildrenOf(This, ret.args[1])) >= 2

\* C8: in every reachable state getSafeTargets(p) returns the set a fresh
\* computation on the current graph gives, whatever was queried before.
C8_CacheCoherent ==
  \A p \in Present :
    Range(getSafeTargets(This, p).val) = Range(computeSafeTargets(This, p))

\* C9: for all ids a and b, b is in adj[a] iff a is in rev[b].
C9_Mirror ==
  \A a \in Mentioned, b \in Mentioned :
    (MapHas(adj, a) /\ SetHas(MapGet(adj, a), b))
      <=> (MapHas(rev, b) /\ SetHas(MapGet(rev, b), a))

\* a deleteNode left other tasks with an edge between them
C9_Witness ==
  /\ LastOp("deleteNode")
  /\ \E a \in Present, b \in Present : Edge(a, b) /\ SetHas(MapGet(rev, b), a)

\* C10: adj, rev and idToTodo have the same keys, and every id stored in an adj
\* or rev set is a key of idToTodo.
C10_EndpointsExist ==
  /\ Range(MapKeys(adj)) = Present
  /\ Range(MapKeys(rev)) = Present
  /\ \A i \in 1..Len(adj) : Range(adj[i].val) \subseteq Present
  /\ \A i \in 1..Len(rev) : Range(rev[i].val) \subseteq Present

\* a deleteNode removed a task that had edges, other tasks and an edge remain
C10_Witness ==
  /\ LastOp("deleteNode")
  /\ ret.args[1] \notin Present
  /\ Cardinality(Present) >= 2
  /\ \E a \in Present, b \in Present : Edge(a, b)

\* a call of method `name` is the step being taken
Calls(name) == ret'.op = name /\ ops' = ops + 1

\* the stored record of a task without its computed field
Record(todo) == [id |-> todo.id, duration |-> todo.duration]

\* C11: addTodo(todo) with an id that is already present changes nothing: the
\* stored record with its duration, adj, rev and every minimumHours stay as
\* they were.
C11_AddExistingNoOp ==
  [][ (Calls("addTodo") /\ ret'.args[1] \in Present)
        => (idToTodo' = idToTodo /\ adj' = adj /\ rev' = rev) ]_vars

\* C12: deleteNode(id) for a present id removes id from idToTodo, adj and rev
\* and from every other task's adj and rev sets; every other task keeps its
\* record and its edges to and from the other tasks.
C12_DeleteNodeFrame ==
  [][ (Calls("deleteNode") /\ ret'.args[1] \in Present)
        => LET id == ret'.args[1]
           IN /\ Range(MapKeys(idToTodo')) = Present \ {id}
              /\ ~MapHas(adj', id) /\ ~MapHas(rev', id)
              /\ \A i \in 1..Len(adj') : id \notin Range(adj'[i].val)
              /\ \A i \in 1..Len(rev') : id \notin Range(rev'[i].val)
              /\ \A a \in Present \ {id} :
                   /\ Record(MapGet(idToTodo', a)) = Record(MapGet(idToTodo, a))
                   /\ MapHas(adj', a) /\ MapHas(rev', a)
                   /\ Range(MapGet(adj', a)) = Range(MapGet(adj, a)) \ {id}
                   /\ Range(MapGet(rev', a)) = Range(MapGet(rev, a)) \ {id} ]_vars

\* a deleteNode of a task that was present has left an edge between two others
C12_Witness ==
  /\ LastOp("deleteNode")
  /\ ret.known
  /\ \E a \in Present, b \in Present : a # b /\ Edge(a, b) /\ SetHas(getParentIds(This, b), a)

\* C13: deleteNode(id) for an id that is not present does not throw and leaves
\* the task set, adj, rev and every minimumHours as they were.  Stated for the
\* acyclic graphs.
C13_DeleteAbsentNoEffect ==
  [][ (Calls("deleteNode") /\ ret'.args[1] \notin Present /\ Acyclic)
        => (~ret'.threw /\ idToTodo' = idToTodo /\ adj' = adj /\ rev' = rev) ]_vars

\* C14: addDependency(from, to) with from or to not a present task returns
\* false, does not throw, and leaves adj, rev, idToTodo and the safe-target
\* cache as they were.
C14_UnknownEndpointRejected ==
  [][ (Calls("addDependency")
         /\ (ret'.args[1] \notin Present \/ ret'.args[2] \notin Present))
        => /\ ret'.bool = FALSE
           /\ ~ret'.threw
           /\ adj' = adj /\ rev' = rev /\ idToTodo' = idToTodo
           /\ safeTargetsCache' = safeTargetsCache ]_vars

\* an addDependency naming an unknown task returned false on a graph that has
\* an edge and a cached safe-target answer
C14_Witness ==
  /\ LastOp("addDependency")
  /\ ~ret.known
  /\ ret.bool = FALSE
  /\ Len(safeTargetsCache) > 0
  /\ \E a \in Present, b \in Present : Edge(a, b)

\* the ids of a list of TodoSchema rows
ListIds(todos) == {todos[i].id : i \in 1..Len(todos)}

\* the pairs (dep -> id) a list declares with both endpoints in the list
DeclaredEdges(todos) ==
  {e \in ListIds(todos) \X ListIds(todos) :
     \E i \in 1..Len(todos) :
       todos[i].id = e[2] /\ e[1] \in Range(todos[i].dependencies)}

\* C15: right after initialize(todos) the tasks are exactly the ids of todos
\* with the durations given, the edges (in adj and in rev) are exactly the
\* declared pairs with both endpoints in todos, the safe-target cache is empty,
\* and minimumHours is what the scheduler computes on the new graph (and meets
\* the scheduler relation when that graph is acyclic).
C15_InitializeReplaces ==
  LastOp("initialize")
    => /\ Present = ListIds(ret.todos)
       /\ \A i \in 1..Len(ret.todos) :
            Duration(ret.todos[i].id) = ret.todos[i].duration
       /\ {e \in Mentioned \X Mentioned : Edge(e[1], e[2])} = DeclaredEdges(ret.todos)
       /\ {e \in Mentioned \X Mentioned : SetHas(getParentIds(This, e[2]), e[1])}
            = DeclaredEdges(ret.todos)
       /\ safeTargetsCache = <<>>
       /\ idToTodo = calculateEarliestStartTimes(This).idToTodo
       /\ Acyclic => SchedulerRelation

\* a second or later initialize has built a graph with an edge and a task that
\* has to wait
C15_Witness ==
  /\ LastOp("initialize")
  /\ ops >= 2
  /\ \E a \in Present, b \in Present : Edge(a, b) /\ MinimumHours(b) > 0
  /\ Acyclic

\* C16: for every list, one declaring a cycle or a task as its own dependency
\* included, the graph right after initialize(todos) is acyclic.
C16_InitializeAcyclic == LastOp("initialize") => Acyclic

\* C17: right after calculateEarliestStartTimes(), calling it again with
\* nothing changed in between leaves every minimumHours as the first call set
\* it.
C17_Idempotent ==
  LastOp("calculateEarliestStartTimes")
    => calculateEarliestStartTimes(This).idToTodo = idToTodo

\* calculateEarliestStartTimes() has just run on a graph with an edge whose
\* dependent has to wait, and a second run changes nothing
C17_Witness ==
  /\ LastOp("calculateEarliestStartTimes")
  /\ \E a \in Present, b \in Present :
       Edge(a, b) /\ Duration(a) > 0 /\ MinimumHours(b) >= Duration(a)
  /\ calculateEarliestStartTimes(calculateEarliestStartTimes(This)).idToTodo = idToTodo

\* C18: every call of getCriticalPath, getSafeTargets and
\* calculateEarliestStartTimes made in a reachable state runs to its end and
\* returns.
C18_Terminates ==
  ret.op \in {"getCriticalPath", "getSafeTargets", "calculateEarliestStartTimes"}
    => ~ret.threw

\* C19: getCriticalPath(root) returns the empty sequence when root is not a
\* present task and a non-empty sequence when it is.
C19_EmptyIffUnknown ==
  LastOp("getCriticalPath")
    => IF ret.args[1] \in Present
         THEN ~ret.threw /\ Len(ret.ids) > 0
         ELSE ~ret.threw /\ ret.ids = <<>>

\* C20: with both versions of TodoDAG given the same calls, getSafeTargets(from)
\* returns the same set of ids from both, for every from: for the query just
\* made and for a query made in the current state.
C20_SafeTargetsAgree ==
  /\ LastOp("getSafeTargets") => Range(ret.ids) = Range(ret.otherIds)
  /\ \A from \in Ids :
       Range(getSafeTargets(This, from).val) = Range(getSafeTargetsOther(other, from).val)

\* both versions have answered getSafeTargets(B) with an edge A -> B present,
\* leaving out A and B and naming another task
C20_Witness ==
  /\ LastOp("getSafeTargets")
  /\ ret.args[1] \in Present
  /\ MapHas(other.adj, ret.args[1])
  /\ \E a \in Present :
       /\ a # ret.args[1]
       /\ Edge(a, ret.args[1])
       /\ MapHas(MapGet(other.adj, a), ret.args[1])
       /\ ~SetHas(ret.ids, a) /\ ~SetHas(ret.otherIds, a)
  /\ Len(ret.otherIds) > 0
  /\ Range(ret.ids) = Range(ret.otherIds)

\* C21: rootNodes returns exactly the present task ids whose reverse-adjacency
\* set is empty, and after deleteNode(B) every task whose only prerequisite
\* was B is in rootNodes and has minimumHours 0.
C21_RootNodes ==
  [][ /\ Range(rootNodes(This))' = {p \in Present' : MapGet(rev', p) = <<>>}
      /\ Calls("deleteNode")
           => \A a \in Present' :
                (MapHas(rev, a) /\ MapGet(rev, a) = <<ret'.args[1]>>)
                  => /\ SetHas(rootNodes(This)', a)
                     /\ MapGet(idToTodo', a).minimumHours = 0 ]_vars

\* deleteNode(1) on the chain 1 -> 2 -> 3 has left task 2, whose only
\* prerequisite was task 1, a root with minimumHours 0 and task 3 waiting for it
C21_Witness ==
  /\ LastOp("deleteNode")
  /\ ret.args[1] = 1
  /\ ret.known
  /\ ops = 2
  /\ Present = {2, 3}
  /\ Duration(3) = 0
  /\ Edge(2, 3)
  /\ rootNodes(This) = <<2>>
  /\ MinimumHours(2) = 0
  /\ MinimumHours(3) = Duration(2)

\* C22: a run of calculateEarliestStartTimes() started in any reachable state
\* dequeues every present task from the work queue exactly once before the
\* queue empties.
C22_DequeuedOnce ==
  LET dequeued == Kahn(This).dequeued
  IN \A p \in Present :
       Cardinality({i \in 1..Len(dequeued) : dequeued[i] = p}) = 1

\* C23: on an acyclic graph, wherever two or more dependents of a task on the
\* path getCriticalPath(root) returns yield the same maximal total weight (the
\* task's duration plus the greatest chain weight from the dependent), the path
\* continues through the one of them that comes first in the task's forward
\* adjacency order.
C23_TieBreakFirst ==
  (LastOp("getCriticalPath") /\ ret.args[1] \in Present /\ Acyclic /\ ~ret.threw)
    => \A i \in 1..(Len(ret.ids) - 1) :
         LET node      == ret.ids[i]
             neighbors == getChildrenOf(This, node)
             total(j)  == Duration(node) + LongestFrom(neighbors[j])
             tied      == {j \in 1..Len(neighbors) :
                             \A k \in 1..Len(neighbors) : total(k) <= total(j)}
         IN Cardinality(tied) >= 2
              => ret.ids[i + 1] = neighbors[CHOOSE j \in tied : \A k \in tied : j <= k]

\* C24: deleteDependency(from, to) removes exactly the edge from -> to from adj
\* and from rev and leaves every other edge and the task set as they were; when
\* that edge is absent or an endpoint is unknown it changes nothing; and it
\* never turns an acyclic graph into a cyclic one.
C24_DeleteDependencyFrame ==
  [][ Calls("deleteDependency")
        => LET from == ret'.args[1]
               to   == ret'.args[2]
           IN /\ IF from \in Present /\ to \in Present /\ Edge(from, to)
                   THEN /\ MapKeys(idToTodo') = MapKeys(idToTodo)
                        /\ \A a \in Present :
                             Record(MapGet(idToTodo', a)) = Record(MapGet(idToTodo, a))
                        /\ MapKeys(adj') = MapKeys(adj)
                        /\ MapKeys(rev') = MapKeys(rev)
                        /\ \A a \in Present :
                             /\ Range(MapGet(adj', a))
                                  = Range(MapGet(adj, a)) \ (IF a = from THEN {to} ELSE {})
                             /\ Range(MapGet(rev', a))
                                  = Range(MapGet(rev, a)) \ (IF a = to THEN {from} ELSE {})
                   ELSE /\ idToTodo' = idToTodo /\ adj' = adj /\ rev' = rev
                        /\ safeTargetsCache' = safeTargetsCache
              /\ Acyclic => Acyclic' ]_vars

\* deleteDependency(1, 2) on the chain 1 -> 2 -> 3 has removed that edge from
\* adj and rev and left the edge 2 -> 3 and the three tasks
C24_Witness ==
  /\ LastOp("deleteDependency")
  /\ ret.args = <<1, 2>>
  /\ ops = 2
  /\ Present = {1, 2, 3}
  /\ Duration(3) = 0
  /\ ~Edge(1, 2) /\ ~SetHas(getParentIds(This, 2), 1)
  /\ Edge(2, 3) /\ SetHas(getParentIds(This, 3), 2)
  /\ Acyclic

\* ======================================================= the application
\* The page (src/unnamed/part_007), TodoForm (part_006) and AddDependencyForm
\* drive the TodoDAG singleton and talk to the routes PATCH /api/todos/[id],
\* POST /api/todos and POST /api/todos/delete-todo.  Every handler sends its
\* request and goes on when the answer arrives; the server answers requests in
\* any order.  A request may find no server (rejected fetch) or be answered
\* non-ok without having changed a row.
\*
\* The source holds the delete-todo route twice: route.ts destructures the body
\* key parentsToUpdate, the copy in part_001 the key dependencies.  routeKey is
\* the key read by the one that is deployed.

\* ---------------------------------------------------------- the Todo table
RowIds(rows) == {rows[i].id : i \in 1..Len(rows)}

\* prisma.todo.findUnique / findMany on ids in the table
RowGet(rows, id) == rows[CHOOSE i \in 1..Len(rows) : rows[i].id = id]

\* prisma.todo.update({ where: { id }, data: { dependencies } })
RowSetDependencies(rows, id, dependencies) ==
  SeqMap(rows, LAMBDA r : IF r.id = id THEN [r EXCEPT !.dependencies = dependencies] ELSE r)

\* prisma.todo.update({ where: { id }, data: { duration } })
RowSetDuration(rows, id, duration) ==
  SeqMap(rows, LAMBDA r : IF r.id = id THEN [r EXCEPT !.duration = duration] ELSE r)

\* tx.todo.delete({ where: { id } }) once committed
RowDelete(rows, id) == SelectSeq(rows, LAMBDA r : r.id # id)

\* the rows GET /api/todos returns when the page is opened
PersistedLists ==
  { \* two tasks without dependencies
    << Schema(1, 1, <<>>), Schema(2, 1, <<>>) >>,
    \* a fork 1 -> 2, 1 -> 3
    << Schema(1, 0, <<>>), Schema(2, 1, <<1>>), Schema(3, 1, <<1>>) >> }

\* -------------------------------------------------------- handler calls
\* a handler call that has sent its request: `n` numbers the call, `h` is the
\* handler, `a` and `b` its ids or duration, `deps` the array in the body,
\* `stage` how far the request and its answer are, `adj` the forward adjacency
\* map when handleAddDependency was called; `found`, `todo`, `failed` and
\* `updated` belong to the delete-todo transaction: the records findMany
\* returned, the ids whose update has not run, whether an update threw, and the
\* ids whose row was written
Req(n, h, a, b, deps) ==
  [n |-> n, h |-> h, a |-> a, b |-> b, deps |-> deps, stage |-> "sent",
   adj |-> <<>>, found |-> <<>>, todo |-> {}, failed |-> FALSE, updated |-> {}]

\* a click or submit that calls a handler: counted like a call
Click == ops < MaxClicks /\ ops' = ops + 1 /\ UNCHANGED other

Send(r) == reqs' = reqs \cup {r}

Move(r, r2) == reqs' = (reqs \ {r}) \cup {r2}

Finish(r) == reqs' = reqs \ {r}

\* the target <select> listing every todo, as the source <select> does
RenderAllTodos(t, source) == [this |-> t, val |-> allTodoIds(t)]

\* the target <select> of AddDependencyForm as rendered for `source`
Render(t, source) ==
  IF source # 0 THEN getSafeTargets(t, source) ELSE [this |-> t, val |-> <<>>]

\* the page and the form render again on the graph t
Refresh(t) ==
  /\ Commit(Render(t, form.source).this)
  /\ form' = [form EXCEPT !.options = Render(t, form.source).val]

\* ------------------------------------------------- AddDependencyForm.tsx
\* onChange of the source select: the chosen id or null, the target reset
SelectSource(s) ==
  /\ s # form.source
  /\ form' = [source |-> s, target |-> 0, options |-> Render(This, s).val]
  /\ Commit(Render(This, s).this)
  /\ UNCHANGED <<ret, ops, other, db, seq, routeKey, reqs>>

\* onChange of the target select: one of the options on screen, or null
SelectTarget(target) ==
  /\ form.source # 0
  /\ target # form.target
  /\ target \in Range(form.options) \cup {0}
  /\ form' = [form EXCEPT !.target = target,
                          !.options = Render(This, form.source).val]
  /\ Commit(Render(This, form.source).this)
  /\ UNCHANGED <<ret, ops, other, db, seq, routeKey, reqs>>

\* the page renders again for a reason of its own (a todo picked for editing
\* or for its critical path)
Rerender ==
  /\ form.options # Render(This, form.source).val
  /\ Refresh(This)
  /\ UNCHANGED <<ret, ops, other, db, seq, routeKey, reqs>>

\* the Add Dependency button: handleAddDependency up to its fetch
HandleAddDependency ==
  /\ form.source # 0 /\ form.target # 0
  /\ Click
  /\ LET from == form.source
         to   == form.target
         r    == addDependency(This, from, to)
     IN /\ Commit(r.this)
        /\ IF r.val
             THEN Send([Req(ops, "handleAddDependency", from, to,
                            getParentIds(r.this, to)) EXCEPT !.adj = adj])
             ELSE UNCHANGED reqs
  /\ UNCHANGED <<ret, db, seq, routeKey, form>>

\* .then with response.ok: the form cleared, the page refreshed, the start
\* times computed
HandleAddDependencyThen(r) ==
  /\ r.h = "handleAddDependency" /\ r.stage = "ok"
  /\ Commit(calculateEarliestStartTimes(This))
  /\ form' = EmptyForm
  /\ Finish(r)
  /\ UNCHANGED <<ret, ops, other, db, seq, routeKey>>

\* .then with a non-ok response: the rollback, then await response.text()
HandleAddDependencyNotOk(r) ==
  /\ r.h = "handleAddDependency" /\ r.stage = "nonok"
  /\ Commit(deleteDependency(This, r.a, r.b))
  /\ Move(r, [r EXCEPT !.stage = "text"])
  /\ UNCHANGED <<ret, ops, other, db, seq, routeKey, form>>

\* .catch: after the throw of the non-ok branch or after a rejected fetch
HandleAddDependencyCatch(r) ==
  /\ r.h = "handleAddDependency" /\ r.stage \in {"text", "rejected"}
  /\ Commit(deleteDependency(This, r.a, r.b))
  /\ Finish(r)
  /\ UNCHANGED <<ret, ops, other, db, seq, routeKey, form>>

\* ------------------------------------------------------ page (part_007)
\* the delete button of a todo: handleDeleteTodo up to its fetch
HandleDeleteTodo(todoId) ==
  /\ hasTodo(This, todoId)
  /\ Click
  /\ Send(Req(ops, "handleDeleteTodo", todoId, 0, getChildrenOf(This, todoId)))
  /\ UNCHANGED <<idToTodo, adj, rev, safeTargetsCache, ret, db, seq, routeKey, form>>

HandleDeleteTodoThen(r) ==
  /\ r.h = "handleDeleteTodo" /\ r.stage = "ok"
  /\ Refresh(deleteNode(This, r.a))
  /\ Finish(r)
  /\ UNCHANGED <<ret, ops, other, db, seq, routeKey>>

\* -------------------------------------------------- TodoForm (part_006)
\* handleSubmit with no todo selected: handleAddTodo up to its fetch
HandleAddTodo(duration) ==
  /\ seq + Cardinality({r \in reqs : r.h = "handleAddTodo"}) <= MaxId
  /\ Click
  /\ Send(Req(ops, "handleAddTodo", 0, duration, <<>>))
  /\ UNCHANGED <<idToTodo, adj, rev, safeTargetsCache, ret, db, seq, routeKey, form>>

HandleAddTodoThen(r) ==
  /\ r.h = "handleAddTodo" /\ r.stage = "ok"
  /\ Refresh(addTodo(This, NewTodo(r.a, r.b)))
  /\ Finish(r)
  /\ UNCHANGED <<ret, ops, other, db, seq, routeKey>>

\* handleSubmit with a todo selected: its duration set in place, then
\* handleEditTodo up to its fetch
HandleSubmitEdit(id, duration) ==
  /\ hasTodo(This, id)
  /\ Click
  /\ idToTodo' = MapSet(idToTodo, id, [MapGet(idToTodo, id) EXCEPT !.duration = duration])
  /\ Send(Req(ops, "handleEditTodo", id, duration, <<>>))
  /\ UNCHANGED <<adj, rev, safeTargetsCache, ret, db, seq, routeKey, form>>

HandleEditTodoThen(r) ==
  /\ r.h = "handleEditTodo" /\ r.stage = "ok"
  /\ Refresh(This)
  /\ Finish(r)
  /\ UNCHANGED <<ret, ops, other, db, seq, routeKey>>

\* the .catch of handleDeleteTodo, handleAddTodo and handleEditTodo: a log line
HandlerCatch(r) ==
  /\ r.h \in {"handleDeleteTodo", "handleAddTodo", "handleEditTodo"}
  /\ r.stage \in {"nonok", "rejected"}
  /\ Finish(r)
  /\ UNCHANGED <<idToTodo, adj, rev, safeTargetsCache, ret, ops, other, db, seq,
                 routeKey, form>>

\* ------------------------------------------------------------ the server
ServerStep ==
  UNCHANGED <<idToTodo, adj, rev, safeTargetsCache, ret, ops, other, routeKey, form>>

\* the request is not served: the fetch rejects, or the server answers 500
FetchFails(r, outcome) ==
  /\ r.stage = "sent"
  /\ Move(r, [r EXCEPT !.stage = outcome])
  /\ UNCHANGED <<db, seq>>
  /\ ServerStep

\* the ids of the rows a delete-todo transaction has deleted and not committed
Locked == {r.a : r \in {q \in reqs : q.h = "handleDeleteTodo" /\ q.stage \in {"tx", "found"}}}

\* PATCH /api/todos/[id]: findUnique, 404 when there is no such row, update
PATCH(r) ==
  /\ r.h \in {"handleAddDependency", "handleEditTodo"} /\ r.stage = "sent"
  /\ LET id == IF r.h = "handleAddDependency" THEN r.b ELSE r.a
     IN /\ id \notin Locked
        /\ IF id \in RowIds(db)
             THEN /\ db' = IF r.h = "handleAddDependency"
                             THEN RowSetDependencies(db, id, r.deps)
                             ELSE RowSetDuration(db, id, r.b)
                  /\ Move(r, [r EXCEPT !.stage = "ok"])
             ELSE /\ UNCHANGED db
                  /\ Move(r, [r EXCEPT !.stage = "nonok"])
  /\ UNCHANGED seq
  /\ ServerStep

\* POST /api/todos: a row with the next id and no dependencies
POSTTodos(r) ==
  /\ r.h = "handleAddTodo" /\ r.stage = "sent"
  /\ db' = Append(db, Schema(seq, r.b, <<>>))
  /\ seq' = seq + 1
  /\ Move(r, [r EXCEPT !.a = seq, !.stage = "ok"])
  /\ ServerStep

\* POST /api/todos/delete-todo up to tx.todo.delete: 400 when the key the route
\* reads holds no array (the body has deletedId and dependencies), 500 when
\* there is no row to delete
POSTDeleteTodo(r) ==
  /\ r.h = "handleDeleteTodo" /\ r.stage = "sent"
  /\ r.a \notin Locked
  /\ Move(r, [r EXCEPT !.stage = IF routeKey # "dependencies" THEN "nonok"
                                 ELSE IF r.a \notin RowIds(db) THEN "nonok"
                                 ELSE "tx"])
  /\ UNCHANGED <<db, seq>>
  /\ ServerStep

\* removeFromArrayField: findMany through the module's client, which reads the
\* committed rows outside the transaction
RemoveFromArrayFieldFindMany(r) ==
  /\ r.h = "handleDeleteTodo" /\ r.stage = "tx"
  /\ Len(r.deps) > 0
  /\ LET records == SelectSeq(db, LAMBDA row : row.id \in Range(r.deps))
     IN Move(r, [r EXCEPT !.stage = "found", !.found = records,
                          !.todo = RowIds(records)])
  /\ UNCHANGED <<db, seq>>
  /\ ServerStep

\* one of the updates of removeFromArrayField, run through the module's client:
\* written and committed on its own, or thrown when the row is gone
RemoveFromArrayFieldUpdate(r, id) ==
  /\ r.h = "handleDeleteTodo" /\ r.stage = "found"
  /\ id \in r.todo
  /\ id \notin Locked
  /\ IF id \in RowIds(db)
       THEN /\ db' = RowSetDependencies(db, id,
                       SelectSeq(RowGet(r.found, id).dependencies, LAMBDA val : val # r.a))
            /\ Move(r, [r EXCEPT !.todo = @ \ {id}, !.updated = @ \cup {id}])
       ELSE /\ UNCHANGED db
            /\ Move(r, [r EXCEPT !.todo = @ \ {id}, !.failed = TRUE])
  /\ UNCHANGED seq
  /\ ServerStep

\* the end of prisma.$transaction: the delete committed and 200, or rolled back
\* and 500 when the callback threw
TransactionEnd(r) ==
  /\ r.h = "handleDeleteTodo"
  /\ \/ r.stage = "tx" /\ Len(r.deps) = 0
     \/ r.stage = "found" /\ r.todo = {}
  /\ IF r.failed
       THEN UNCHANGED db /\ Move(r, [r EXCEPT !.stage = "nonok"])
       ELSE db' = RowDelete(db, r.a) /\ Move(r, [r EXCEPT !.stage = "ok"])
  /\ UNCHANGED seq
  /\ ServerStep

\* the page opened on persisted rows: fetchTodos has run initialize(data)
AppInit ==
  \E rows \in PersistedLists, key \in {"parentsToUpdate", "dependencies"} :
    LET t == initialize([idToTodo |-> <<>>, adj |-> <<>>, rev |-> <<>>,
                         safeTargetsCache |-> <<>>], rows)
    IN /\ idToTodo = t.idToTodo
       /\ adj = t.adj
       /\ rev = t.rev
       /\ safeTargetsCache = t.safeTargetsCache
       /\ ret = [Call("initialize", <<>>) EXCEPT !.todos = rows]
       /\ ops = 0
       /\ other = [idToTodo |-> <<>>, adj |-> <<>>, rev |-> <<>>, safeTargetsCache |-> <<>>]
       /\ db = rows
       /\ seq = rows[Len(rows)].id + 1
       /\ routeKey = key
       /\ reqs = {}
       /\ form = EmptyForm

AppNext ==
  \/ \E s \in Range(allTodoIds(This)) \cup {0} : SelectSource(s)
  \/ \E target \in Ids \cup {0} : SelectTarget(target)
  \/ Rerender
  \/ HandleAddDependency
  \/ \E todoId \in Ids : HandleDeleteTodo(todoId)
  \/ \E duration \in Durations : HandleAddTodo(duration)
  \/ \E r \in reqs :
       \/ HandleAddDependencyThen(r)
       \/ HandleAddDependencyNotOk(r)
       \/ HandleAddDependencyCatch(r)
       \/ HandleDeleteTodoThen(r)
       \/ HandleAddTodoThen(r)
       \/ HandlerCatch(r)
       \/ \E outcome \in {"nonok", "rejected"} : FetchFails(r, outcome)
       \/ PATCH(r)
       \/ POSTTodos(r)
       \/ POSTDeleteTodo(r)
       \/ RemoveFromArrayFieldFindMany(r)
       \/ \E id \in r.todo : RemoveFromArrayFieldUpdate(r, id)
       \/ TransactionEnd(r)

\* the page with its server, from the moment the todos are loaded
AppSpec == AppInit /\ [][AppNext]_vars

EditNext ==
  \/ \E id \in Ids, duration \in Durations : HandleSubmitEdit(id, duration)
  \/ \E duration \in Durations : HandleAddTodo(duration)
  \/ \E r \in reqs :
       \/ HandleEditTodoThen(r)
       \/ HandleAddTodoThen(r)
       \/ HandlerCatch(r)
       \/ \E outcome \in {"nonok", "rejected"} : FetchFails(r, outcome)
       \/ PATCH(r)
       \/ POSTTodos(r)

\* the page used through TodoForm only
EditSpec == AppInit /\ [][EditNext]_vars

\* the edges of a forward adjacency map, as pairs
EdgeSet(m) == UNION {{<<m[i].key, x>> : x \in Range(m[i].val)} : i \in 1..Len(m)}

\* C25: with the page opened on an acyclic graph, whatever the user does on the
\* dependency form (source, target from the options on screen, Add), with
\* todos created and deleted in between and the PATCH answers arriving in any
\* order, ok or failed and rolled back, the local graph has no cycle.
C25_FormKeepsAcyclic ==
  /\ \A a \in Present : ~Edge(a, a)
  /\ \A a \in Present, b \in Present : ~(b \in ReachableFrom(a) /\ a \in ReachableFrom(b))

\* on the fork 1 -> 2, 1 -> 3 the form has added 2 -> 3, the PATCH was answered
\* ok and persisted, and a second call, for 1 -> 2, failed and was rolled back
C25_Witness ==
  /\ ops = 2
  /\ reqs = {}
  /\ Present = {1, 2, 3}
  /\ Edge(2, 3) /\ Edge(1, 3) /\ ~Edge(1, 2)
  /\ RowGet(db, 3).dependencies = <<1, 2>>
  /\ form = EmptyForm

\* C26: when handleAddDependency(from, to) has added the edge locally, its
\* PATCH fails (non-ok response or rejected fetch) and the handler has
\* finished, the local edge set is the one from before the call, also when the
\* edge from -> to was there beforehand.  Stated for a call that is the only
\* handler call of the run.
C26_RollbackRestores ==
  [][ \A r \in reqs :
        (/\ r.h = "handleAddDependency"
         /\ r.stage \in {"text", "rejected"}
         /\ r \notin reqs'
         /\ ops = 1)
          => EdgeSet(adj') = EdgeSet(r.adj) ]_vars

\* C27: once no handler call is in flight, no persisted row's dependencies
\* array holds the id of a todo whose delete through handleDeleteTodo and
\* POST /api/todos/delete-todo was committed (a row id handed out and no
\* longer in the table).
C27_NoDanglingDependency ==
  reqs = {}
    => \A T \in 1..(seq - 1) :
         T \notin RowIds(db)
           => \A i \in 1..Len(db) : T \notin Range(db[i].dependencies)

\* C28: a call of POST /api/todos/delete-todo answered ok has deleted the row
\* and written every listed row it found; a call answered non-ok has left the
\* row and has written no row.
C28_DeleteTodoAtomic ==
  \A r \in reqs :
    r.h = "handleDeleteTodo"
      => /\ r.stage = "ok" => (r.a \notin RowIds(db) /\ r.updated = RowIds(r.found))
         /\ r.stage = "nonok" => r.updated = {}

\* C29: once no handler call is in flight, the persisted dependencies array of
\* every todo holds exactly the todo's prerequisites in the local graph.
C29_PersistedAgrees ==
  reqs = {}
    => \A i \in 1..Len(db) :
         hasTodo(This, db[i].id)
           => Range(db[i].dependencies) = Range(getParentIds(This, db[i].id))

\* C30: when the answer to the PATCH of an edit has been handled and the graph
\* refreshed, every dependent of the edited task has minimumHours at least the
\* task's minimumHours plus its new duration.
C30_EditKeepsRelation ==
  [][ \A r \in reqs :
        (r.h = "handleEditTodo" /\ r.stage = "ok" /\ r \notin reqs')
          => \A d \in Range(getChildrenOf(This, r.a)) :
               MapGet(idToTodo', d).minimumHours
                 >= MapGet(idToTodo', r.a).minimumHours + MapGet(idToTodo', r.a).duration ]_vars
====
